---- MODULE Spec2Model ----
(***************************************************************************)
(* HTML -> PDF service with Arabic font discovery and selection            *)
(* (fastapi_pdf_project/main.py, fastapi_pdf_project/main_old.py).         *)
(*                                                                         *)
(* Python strings are sequences of one-character strings, so that          *)
(* str.lower(), str.strip(), str.split(), Path.suffix, the font-family     *)
(* regular expression and the ordering used by sorted() are computed the   *)
(* way the interpreter computes them.  Python's None is the value None     *)
(* below, which is different from every string.                            *)
(***************************************************************************)
EXTENDS Integers, Sequences, FiniteSets, TLC

VARIABLES
    dir,          \* the font directory: [exists, files]
    openHandles,  \* font file handles opened by TTFont(...) and not closed
    pc,           \* "idle" between calls, "done" when a call has returned
    op,           \* the operation that ran last
    arg,          \* its input
    out           \* its result

vars == <<dir, openHandles, pc, op, arg, out>>

(***************************** bounds **************************************)
\* cmap subtables of an inspected font
MaxTables == 2
\* entries of the font directory when the catalog or the selector is checked
MaxFiles == 3
\* entries of the font directory behind the endpoints
MaxServiceFiles == 2
\* handles that may stay open before the model stops counting
MaxOpen == 2

(************************** Python strings *********************************)
None == <<"None">>

Truthy(v) == v /= None /\ v /= <<>>

\* `a or b`
PyOr(a, b) == IF Truthy(a) THEN a ELSE b

\* ord(c) for tab, line feed and ASCII 32..126 (but the back quote)
OrdTable ==
    ("\t" :> 9) @@ ("\n" :> 10) @@ (" " :> 32) @@ ("!" :> 33) @@
    ("\"" :> 34) @@ ("#" :> 35) @@ ("$" :> 36) @@ ("%" :> 37) @@
    ("&" :> 38) @@ ("'" :> 39) @@ ("(" :> 40) @@ (")" :> 41) @@
    ("*" :> 42) @@ ("+" :> 43) @@ ("," :> 44) @@ ("-" :> 45) @@
    ("." :> 46) @@ ("/" :> 47) @@ ("0" :> 48) @@ ("1" :> 49) @@
    ("2" :> 50) @@ ("3" :> 51) @@ ("4" :> 52) @@ ("5" :> 53) @@
    ("6" :> 54) @@ ("7" :> 55) @@ ("8" :> 56) @@ ("9" :> 57) @@
    (":" :> 58) @@ (";" :> 59) @@ ("<" :> 60) @@ ("=" :> 61) @@
    (">" :> 62) @@ ("?" :> 63) @@ ("@" :> 64) @@ ("A" :> 65) @@
    ("B" :> 66) @@ ("C" :> 67) @@ ("D" :> 68) @@ ("E" :> 69) @@
    ("F" :> 70) @@ ("G" :> 71) @@ ("H" :> 72) @@ ("I" :> 73) @@
    ("J" :> 74) @@ ("K" :> 75) @@ ("L" :> 76) @@ ("M" :> 77) @@
    ("N" :> 78) @@ ("O" :> 79) @@ ("P" :> 80) @@ ("Q" :> 81) @@
    ("R" :> 82) @@ ("S" :> 83) @@ ("T" :> 84) @@ ("U" :> 85) @@
    ("V" :> 86) @@ ("W" :> 87) @@ ("X" :> 88) @@ ("Y" :> 89) @@
    ("Z" :> 90) @@ ("[" :> 91) @@ ("\\" :> 92) @@ ("]" :> 93) @@
    ("^" :> 94) @@ ("_" :> 95) @@ ("a" :> 97) @@ ("b" :> 98) @@
    ("c" :> 99) @@ ("d" :> 100) @@ ("e" :> 101) @@ ("f" :> 102) @@
    ("g" :> 103) @@ ("h" :> 104) @@ ("i" :> 105) @@ ("j" :> 106) @@
    ("k" :> 107) @@ ("l" :> 108) @@ ("m" :> 109) @@ ("n" :> 110) @@
    ("o" :> 111) @@ ("p" :> 112) @@ ("q" :> 113) @@ ("r" :> 114) @@
    ("s" :> 115) @@ ("t" :> 116) @@ ("u" :> 117) @@ ("v" :> 118) @@
    ("w" :> 119) @@ ("x" :> 120) @@ ("y" :> 121) @@ ("z" :> 122) @@
    ("{" :> 123) @@ ("|" :> 124) @@ ("}" :> 125) @@ ("~" :> 126)

Ord(c) == OrdTable[c]

\* the lower case of A..Z
LowerTable ==
    ("A" :> "a") @@ ("B" :> "b") @@ ("C" :> "c") @@ ("D" :> "d") @@
    ("E" :> "e") @@ ("F" :> "f") @@ ("G" :> "g") @@ ("H" :> "h") @@
    ("I" :> "i") @@ ("J" :> "j") @@ ("K" :> "k") @@ ("L" :> "l") @@
    ("M" :> "m") @@ ("N" :> "n") @@ ("O" :> "o") @@ ("P" :> "p") @@
    ("Q" :> "q") @@ ("R" :> "r") @@ ("S" :> "s") @@ ("T" :> "t") @@
    ("U" :> "u") @@ ("V" :> "v") @@ ("W" :> "w") @@ ("X" :> "x") @@
    ("Y" :> "y") @@ ("Z" :> "z")

LowerChar(c) == IF c \in DOMAIN LowerTable THEN LowerTable[c] ELSE c

\* str.lower()
Lower(s) == [i \in 1..Len(s) |-> LowerChar(s[i])]

IsSpace(c) == c \in {" ", "\t", "\n"}

SetMin(S) == CHOOSE x \in S : \A y \in S : x <= y
SetMax(S) == CHOOSE x \in S : \A y \in S : x >= y

\* the element of a one-element set; The({e(x) : x \in {v}}) is e with x
\* naming the value of v
The(S) == CHOOSE r \in S : TRUE

\* a function, tabulated: its values are computed once
Table(f) == f @@ <<>>

\* the elements f[i], i in the index set I, by increasing i
SeqOfIndices(I, f) ==
    [k \in 1..Cardinality(I) |->
        f[CHOOSE i \in I : Cardinality({j \in I : j <= i}) = k]]

\* str.strip(chars): drop leading and trailing characters of the set
StripSet(s, chars) ==
    The({IF keep = {} THEN <<>> ELSE SubSeq(s, SetMin(keep), SetMax(keep)) :
            keep \in {{i \in 1..Len(s) : s[i] \notin chars}}})

\* str.strip()
Strip(s) == StripSet(s, {" ", "\t", "\n"})

\* a < b for Python strings: lexicographic by code point
StrLess(a, b) ==
    \E i \in 1..Len(b) :
        /\ \A j \in 1..(i - 1) : j <= Len(a) /\ a[j] = b[j]
        /\ (i <= Len(a) => Ord(a[i]) < Ord(b[i]))

(***************************** font files **********************************)
(* What fontTools reads of one directory entry:                            *)
(*   name        the file name                                             *)
(*   isFile      a regular file (not a sub-directory)                      *)
(*   parses      TTFont(path) succeeds                                     *)
(*   hasCmap     tt["cmap"] exists; cmapTables: its subtables, each the    *)
(*               set of code points of table.cmap.keys()                   *)
(*   hasName     tt["name"] exists; names: its records [nameID, decodes,   *)
(*               text], decodes = FALSE when toUnicode() raises            *)
(***************************************************************************)
FontFile(n, isf, p, hc, ct, hn, nm) ==
    [name |-> n, isFile |-> isf, parses |-> p, hasCmap |-> hc,
     cmapTables |-> ct, hasName |-> hn, names |-> nm]

NameRec(id, ok, txt) == [nameID |-> id, decodes |-> ok, text |-> txt]

\* The exceptions font parsing raises; all derive from Exception.
ExceptionKinds == {"TTLibError", "KeyError", "UnicodeDecodeError"}

\* `except Exception:` catches every kind above
CaughtByExceptException(kind) == kind \in ExceptionKinds

IsArabicCodepoint_OffByOne(codepoint) ==
    \/ 1536 <= codepoint /\ codepoint < 1791
    \/ 1872 <= codepoint /\ codepoint <= 1919
    \/ 2208 <= codepoint /\ codepoint <= 2303
    \/ 64336 <= codepoint /\ codepoint <= 65023
    \/ 65136 <= codepoint /\ codepoint <= 65279

\* 0x0600 <= cp <= 0x06FF or 0x0750 <= cp <= 0x077F or 0x08A0 <= cp <= 0x08FF
\* or 0xFB50 <= cp <= 0xFDFF or 0xFE70 <= cp <= 0xFEFF
IsArabicCodepoint(codepoint) ==
    \/ 1536 <= codepoint /\ codepoint <= 1791
    \/ 1872 <= codepoint /\ codepoint <= 1919
    \/ 2208 <= codepoint /\ codepoint <= 2303
    \/ 64336 <= codepoint /\ codepoint <= 65023
    \/ 65136 <= codepoint /\ codepoint <= 65279

\* The try block of font_supports_arabic: what it returns or raises, and
\* whether the TTFont it opened was closed when control leaves the block.
ArabicTryBlock(f) ==
    IF ~f.parses
    THEN [exc |-> "TTLibError", ret |-> FALSE, opened |-> FALSE, closed |-> FALSE]
    ELSE IF ~f.hasCmap
    THEN [exc |-> "KeyError", ret |-> FALSE, opened |-> TRUE, closed |-> FALSE]
    ELSE IF \E t \in 1..Len(f.cmapTables) :
                \E codepoint \in f.cmapTables[t] : IsArabicCodepoint(codepoint)
    THEN [exc |-> "none", ret |-> TRUE, opened |-> TRUE, closed |-> TRUE]
    ELSE [exc |-> "none", ret |-> FALSE, opened |-> TRUE, closed |-> TRUE]

\* font_supports_arabic(font_path): ret, whether an exception leaves the
\* function, and whether a handle was opened and not closed
font_supports_arabic(f) ==
    LET b == ArabicTryBlock(f)
    IN  [ret    |-> IF b.exc = "none" THEN b.ret ELSE FALSE,
         raised |-> b.exc /= "none" /\ ~CaughtByExceptException(b.exc),
         leaked |-> b.opened /\ ~b.closed]

\* The family-name loop over tt["name"].names, shared by
\* get_font_display_list and get_family_from_fontfile: the first record with
\* nameID 1 decides.
FamilyTryBlock(f) ==
    IF ~f.parses
    THEN [exc |-> "TTLibError", family |-> None, opened |-> FALSE, closed |-> FALSE]
    ELSE IF ~f.hasName
    THEN [exc |-> "KeyError", family |-> None, opened |-> TRUE, closed |-> FALSE]
    ELSE LET ids == {i \in 1..Len(f.names) : f.names[i].nameID = 1}
         IN  IF ids = {}
             THEN [exc |-> "none", family |-> None, opened |-> TRUE, closed |-> TRUE]
             ELSE LET record == f.names[SetMin(ids)]
                  IN  IF ~record.decodes
                      THEN [exc |-> "UnicodeDecodeError", family |-> None,
                            opened |-> TRUE, closed |-> FALSE]
                      ELSE [exc |-> "none", family |-> record.text,
                            opened |-> TRUE, closed |-> TRUE]

\* get_family_from_fontfile(font_path)
get_family_from_fontfile(f) ==
    LET b == FamilyTryBlock(f)
    IN  [ret    |-> IF b.exc = "none" THEN b.family ELSE None,
         raised |-> b.exc /= "none" /\ ~CaughtByExceptException(b.exc),
         leaked |-> b.opened /\ ~b.closed]

(***************************** font catalog ********************************)
S_dot_ttf == <<".", "t", "t", "f">>
S_dot_otf == <<".", "o", "t", "f">>

\* pathlib's Path.suffix: from the last dot of the name, unless the name has
\* no dot, starts with its only dot or ends with a dot
Suffix(name) ==
    LET dots == {i \in 1..Len(name) : name[i] = "."}
    IN  IF dots = {} THEN <<>>
        ELSE LET i == SetMax(dots)
             IN  IF 1 < i /\ i < Len(name) THEN SubSeq(name, i, Len(name)) ELSE <<>>

\* One iteration of the loop over WINDOWS_FONTS_DIR.iterdir(): the entries it
\* appends to fonts (none or one) and the handles it opened and did not close.
ScanEntry(f) ==
    IF f.isFile /\ Lower(Suffix(f.name)) \in {S_dot_ttf, S_dot_otf}
    THEN LET a == font_supports_arabic(f)
         IN  IF a.ret
             THEN LET b == FamilyTryBlock(f)
                  IN  IF b.exc /= "none"
                      THEN [fonts |-> <<>>,
                            leaks |-> IF b.opened /\ ~b.closed THEN 1 ELSE 0]
                      ELSE IF Truthy(b.family)
                      THEN [fonts |-> <<[filename |-> f.name, family |-> b.family]>>,
                            leaks |-> 0]
                      ELSE [fonts |-> <<>>, leaks |-> 0]
             ELSE [fonts |-> <<>>, leaks |-> IF a.leaked THEN 1 ELSE 0]
    ELSE [fonts |-> <<>>, leaks |-> 0]

\* the loop over iterdir(), in its order
ScanFiles(files) ==
    The({The({[fonts |-> SeqOfIndices(added, [i \in added |-> r[i].fonts[1]]),
               leaks |-> Cardinality({i \in 1..Len(files) : r[i].leaks > 0})] :
                added \in {{i \in 1..Len(files) : r[i].fonts /= <<>>}}}) :
            r \in {[i \in 1..Len(files) |-> ScanEntry(files[i])]}})

SortKey_CaseSensitive(x) == x.family

\* key=lambda x: x["family"].lower()
SortKey(x) == Lower(x.family)

\* sorted(fonts, key=...): ascending by key, and stable: an element comes
\* after those with a smaller key and those before it with the same key
Sorted(fonts) ==
    The({[p \in 1..Len(fonts) |->
            fonts[CHOOSE i \in 1..Len(fonts) :
                    p = 1 + Cardinality({j \in 1..Len(fonts) :
                                \/ StrLess(key[j], key[i])
                                \/ key[j] = key[i] /\ j < i})]] :
            key \in {Table([i \in 1..Len(fonts) |-> SortKey(fonts[i])])}})

\* get_font_display_list(): the sorted list, and the handles left open
get_font_display_list(d) ==
    IF ~d.exists THEN [fonts |-> <<>>, leaks |-> 0]
    ELSE The({[fonts |-> Sorted(s.fonts), leaks |-> s.leaks] :
                 s \in {ScanFiles(d.files)}})

\* main_old.py's get_font_display_list is the same function, reading the
\* family with record.toStr() (fontTools' alias of toUnicode)
get_font_display_list_old(d) == get_font_display_list(d)

(************************ font-family extraction ***************************)
(* FONTFAMILY_REGEXES[0], with re.IGNORECASE:                              *)
(*   font-family\s*:\s*(?:(["'])(?P<q>[^"']+)\1|(?P<nq>[^;"}]+))           *)
(***************************************************************************)
KW_font_family == <<"f", "o", "n", "t", "-", "f", "a", "m", "i", "l", "y">>

\* first index >= i of a character that is not white space (Len + 1 if none)
SkipSpaces(h, i) ==
    LET stop == {j \in i..Len(h) : ~IsSpace(h[j])}
    IN  IF stop = {} THEN Len(h) + 1 ELSE SetMin(stop)

\* first index >= i of a character of excl (Len + 1 if none)
RunEnd(h, i, excl) ==
    LET stop == {j \in i..Len(h) : h[j] \in excl}
    IN  IF stop = {} THEN Len(h) + 1 ELSE SetMin(stop)

NoMatch == [ok |-> FALSE, end |-> 0, fam |-> <<>>]

\* The alternation (["'])(?P<q>[^"']+)\1|(?P<nq>[^;"}]+) tried at index v,
\* after \s* has taken the white space from index s to v - 1.  \s* is greedy
\* and gives white space back only when both alternatives fail at v; nq
\* then matches the white space given back.
MatchValue(h, s, v, qe, ne) ==
    IF /\ v <= Len(h)
       /\ h[v] \in {"\"", "'"}
       /\ qe > v + 1
       /\ qe <= Len(h)
       /\ h[qe] = h[v]
    THEN [ok |-> TRUE, end |-> qe + 1, fam |-> SubSeq(h, v + 1, qe - 1)]
    ELSE IF ne > v
    THEN [ok |-> TRUE, end |-> ne, fam |-> SubSeq(h, v, ne - 1)]
    ELSE IF v > s
    THEN [ok |-> TRUE, end |-> v, fam |-> SubSeq(h, v - 1, v - 1)]
    ELSE NoMatch

\* The match of the regular expression that starts at index i, if any: the
\* index after it and the group the code reads (q if it took part, else nq).
MatchAt(h, i) ==
    IF i + 10 > Len(h) \/ Lower(SubSeq(h, i, i + 10)) /= KW_font_family
    THEN NoMatch
    ELSE The({IF c > Len(h) \/ h[c] /= ":" THEN NoMatch
              ELSE The({MatchValue(h, c + 1, v, RunEnd(h, v + 1, {"\"", "'"}),
                                   RunEnd(h, v, {";", "\"", "}"})) :
                           v \in {SkipSpaces(h, c + 1)}}) :
                 c \in {SkipSpaces(h, i + 11)}})

\* rx.finditer(html): the groups of the non-overlapping matches, left to right
RECURSIVE FindIter(_, _)
FindIter(h, i) ==
    The({IF starts = {} THEN <<>>
         ELSE The({<<m.fam>> \o FindIter(h, m.end) :
                      m \in {MatchAt(h, SetMin(starts))}}) :
            starts \in {{j \in i..Len(h) : MatchAt(h, j).ok}}})

\* fam.split(',')[0]
SplitCommaFirst(s) == SubSeq(s, 1, RunEnd(s, 1, {","}) - 1)

\* fam.split(',')[0].strip().strip('"').strip("'")
CleanFamily(fam) == StripSet(StripSet(Strip(SplitCommaFirst(fam)), {"\""}), {"'"})

\* the loop over the matches: a family is appended unless it is empty or
\* already a candidate
Candidates(groups) ==
    The({SeqOfIndices({i \in 1..Len(groups) :
                          /\ fam[i] /= <<>>
                          /\ \A j \in 1..(i - 1) : fam[j] /= fam[i]},
                      fam) :
            fam \in {Table([i \in 1..Len(groups) |-> CleanFamily(groups[i])])}})

\* extract_font_family_candidates(html)
extract_font_family_candidates(html) ==
    IF ~Truthy(html) THEN <<>> ELSE Candidates(FindIter(html, 1))

(***************************** font selection ******************************)
S_Traditional_Arabic == <<"T", "r", "a", "d", "i", "t", "i", "o", "n", "a",
    "l", " ", "A", "r", "a", "b", "i", "c">>
S_Arial == <<"A", "r", "i", "a", "l">>
S_Tahoma == <<"T", "a", "h", "o", "m", "a">>
S_Noto_Kufi_Arabic == <<"N", "o", "t", "o", " ", "K", "u", "f", "i", " ",
    "A", "r", "a", "b", "i", "c">>
S_Segoe_UI == <<"S", "e", "g", "o", "e", " ", "U", "I">>

FALLBACK_FAMILIES_CatalogOrder ==
    <<S_Arial, S_Noto_Kufi_Arabic, S_Segoe_UI, S_Tahoma, S_Traditional_Arabic>>

\* ["Traditional Arabic", "Arial", "Tahoma", "Noto Kufi Arabic", "Segoe UI"]
FALLBACK_FAMILIES ==
    <<S_Traditional_Arabic, S_Arial, S_Tahoma, S_Noto_Kufi_Arabic, S_Segoe_UI>>

\* `key in mapping`, for mapping = {f["family"].strip().lower(): f["filename"]}
InMapping(fonts, key) ==
    \E i \in 1..Len(fonts) : Lower(Strip(fonts[i].family)) = key

\* mapping[key]: a later entry of the list overwrites an earlier one
MappingGet(fonts, key) ==
    fonts[SetMax({i \in 1..Len(fonts) : Lower(Strip(fonts[i].family)) = key})].filename

LastHit(hits) == SetMax(hits)

\* the loops of choose_font_from_html return at the first name in the mapping
FirstHit(hits) == SetMin(hits)

\* the two loops of choose_font_from_html over the mapping built from fonts
ChooseFrom(fonts, cands) ==
    The({IF hits /= {}
         THEN The({[family |-> fam, filename |-> MappingGet(fonts, Lower(Strip(fam)))] :
                      fam \in {cands[FirstHit(hits)]}})
         ELSE The({IF fbs /= {}
                   THEN The({[family |-> fallback,
                              filename |-> MappingGet(fonts, Lower(fallback))] :
                                fallback \in {FALLBACK_FAMILIES[FirstHit(fbs)]}})
                   ELSE [family |-> None, filename |-> None] :
                      fbs \in {{i \in 1..Len(FALLBACK_FAMILIES) :
                                  InMapping(fonts, Lower(FALLBACK_FAMILIES[i]))}}}) :
            hits \in {{i \in 1..Len(cands) : InMapping(fonts, Lower(Strip(cands[i])))}}})

\* choose_font_from_html(html): the pair it returns, and the handles its
\* directory scan left open
choose_font_from_html(html, d) ==
    The({The({[family |-> r.family, filename |-> r.filename, leaks |-> cat.leaks] :
                 r \in {ChooseFrom(cat.fonts, cands)}}) :
            cat \in {get_font_display_list(d)},
            cands \in {extract_font_family_candidates(html)}})

(******************************* rendering *********************************)
NoneCss == [fontFace |-> FALSE, family |-> None, src |-> None]

build_css_NoFontFace(font_family, font_path_uri) == NoneCss

\* build_css(font_family, font_path_uri): the @font-face block and the body
\* font are present only when both arguments are truthy; the @page rule
\* (A4, margins 40mm 10mm 40mm 10mm) and direction: rtl are always there.
build_css(font_family, font_path_uri) ==
    IF Truthy(font_family) /\ Truthy(font_path_uri)
    THEN [fontFace |-> TRUE, family |-> font_family, src |-> font_path_uri]
    ELSE NoneCss

\* (WINDOWS_FONTS_DIR / font_filename).resolve().as_uri()
AsUri(font_filename) == <<"file:///", "Fonts", "/">> \o font_filename

\* (WINDOWS_FONTS_DIR / font_filename).resolve().exists()
PathExists(d, font_filename) ==
    d.exists /\ \E i \in 1..Len(d.files) : d.files[i].name = font_filename

\* render_pdf_bytes(html, css): WeasyPrint either returns PDF bytes or raises;
\* which of the two, and with what, is the engine's choice (outcome).
render_pdf_bytes(html, css, outcome) ==
    IF outcome.ok
    THEN [raised |-> FALSE, bytes |-> outcome.bytes, message |-> <<>>]
    ELSE [raised |-> TRUE, bytes |-> <<>>, message |-> outcome.message]

TryRender_NoExcept(html, css, outcome) ==
    LET r == render_pdf_bytes(html, css, outcome)
    IN  IF r.raised
        THEN [status |-> 500, detail |-> <<"Internal Server Error">>, bytes |-> <<>>,
              escaped |-> TRUE, renderCalls |-> 1]
        ELSE [status |-> 200, detail |-> <<>>, bytes |-> r.bytes, escaped |-> FALSE,
              renderCalls |-> 1]

\* try: pdf_bytes = render_pdf_bytes(html, css)
\* except Exception as e: raise HTTPException(500, f"PDF generation failed: {e}")
\* (the same block closes save_pdf and main_old.py's convert_html)
TryRender(html, css, outcome) ==
    LET r == render_pdf_bytes(html, css, outcome)
    IN  IF r.raised
        THEN [status |-> 500, detail |-> <<"PDF generation failed: ">> \o r.message,
              bytes |-> <<>>, escaped |-> FALSE, renderCalls |-> 1]
        ELSE [status |-> 200, detail |-> <<>>, bytes |-> r.bytes, escaped |-> FALSE,
              renderCalls |-> 1]

B64Alphabet == <<"A", "B", "C", "D", "E", "F", "G", "H", "I", "J", "K", "L",
    "M", "N", "O", "P", "Q", "R", "S", "T", "U", "V", "W", "X", "Y", "Z",
    "a", "b", "c", "d", "e", "f", "g", "h", "i", "j", "k", "l", "m", "n",
    "o", "p", "q", "r", "s", "t", "u", "v", "w", "x", "y", "z", "0", "1",
    "2", "3", "4", "5", "6", "7", "8", "9", "+", "/">>

B64Char(n) == B64Alphabet[n + 1]

\* base64.b64encode(pdf_bytes).decode("utf-8")
RECURSIVE b64encode(_)
b64encode(bytes) ==
    IF Len(bytes) = 0 THEN <<>>
    ELSE IF Len(bytes) = 1
    THEN LET n == bytes[1] * 65536
         IN  <<B64Char(n \div 262144), B64Char((n \div 4096) % 64), "=", "=">>
    ELSE IF Len(bytes) = 2
    THEN LET n == bytes[1] * 65536 + bytes[2] * 256
         IN  <<B64Char(n \div 262144), B64Char((n \div 4096) % 64),
               B64Char((n \div 64) % 64), "=">>
    ELSE LET n == bytes[1] * 65536 + bytes[2] * 256 + bytes[3]
         IN  <<B64Char(n \div 262144), B64Char((n \div 4096) % 64),
               B64Char((n \div 64) % 64), B64Char(n % 64)>>
             \o b64encode(SubSeq(bytes, 4, Len(bytes)))

(******************************* endpoints *********************************)
(* A request to /api/convert-html: the form fields and the json_data body.  *)
(* json.given: json_data is not None; json.nonEmpty: the dict has a key     *)
(* (`if json_data:`); a key the dict lacks reads as None (dict.get).        *)
(***************************************************************************)
Fields(h, fn, ff) == [html_content |-> h, font_filename |-> fn, font_family |-> ff]

\* what a handler answers, and what it did on the way
Response(st, det, bd, fname, sheet, esc, calls, nscans) ==
    [status |-> st, detail |-> det, body |-> bd, filename |-> fname, css |-> sheet,
     escaped |-> esc, renderCalls |-> calls, scans |-> nscans]

\* if json_data: html_content = json_data.get("html_content"); ...
Effective(r) ==
    IF r.json.given /\ r.json.nonEmpty
    THEN Fields(r.json.html_content, r.json.font_filename, r.json.font_family)
    ELSE r.form

\* if font_family and font_filename: ... build_css(...) else build_css(None, None)
CssFor(font_family, font_filename, d) ==
    IF Truthy(font_family) /\ Truthy(font_filename)
    THEN IF ~PathExists(d, font_filename)
         THEN build_css(None, None)
         ELSE build_css(font_family, AsUri(font_filename))
    ELSE build_css(None, None)

\* The font step of the lenient endpoints (convert_html 245-259, save_pdf
\* 288-300): the stylesheet, the scans made and the handles left open.
LenientCss(html, family, filename, d) ==
    IF ~Truthy(filename) \/ ~Truthy(family)
    THEN The({[css   |-> CssFor(PyOr(family, chosen.family),
                                PyOr(filename, chosen.filename), d),
               scans |-> 1,
               leaks |-> chosen.leaks] :
                 chosen \in {choose_font_from_html(html, d)}})
    ELSE [css |-> CssFor(family, filename, d), scans |-> 0, leaks |-> 0]

\* the JSON answer of convert_html after the render step
Base64Answer(t, css, scans) ==
    Response(t.status, t.detail,
             IF t.status = 200 /\ ~t.escaped THEN b64encode(t.bytes) ELSE <<>>,
             None, css, t.escaped, t.renderCalls, scans)

\* main.py: POST /api/convert-html
convert_html(r, d, outcome) ==
    The({IF ~Truthy(e.html_content)
         THEN [resp  |-> Response(400, <<"Missing html_content.">>, <<>>, None,
                                  NoneCss, FALSE, 0, 0),
               leaks |-> 0]
         ELSE The({[resp  |-> Base64Answer(TryRender(e.html_content, f.css, outcome),
                                           f.css, f.scans),
                    leaks |-> f.leaks] :
                      f \in {LenientCss(e.html_content, e.font_family,
                                        e.font_filename, d)}}) :
            e \in {Effective(r)}})

\* class SavePdfPayload(BaseModel): HtmlContent: str is required, so FastAPI
\* answers a body without it (or with null) before save_pdf runs
PayloadValid(p) == p.hasHtmlContent

S_document_pdf == <<"d", "o", "c", "u", "m", "e", "n", "t", ".", "p", "d", "f">>

\* the StreamingResponse of save_pdf after the render step
PdfAnswer(t, file_name, css, scans) ==
    Response(t.status, t.detail, t.bytes,
             IF t.status = 200 /\ ~t.escaped THEN file_name ELSE None,
             css, t.escaped, t.renderCalls, scans)

\* main.py: POST /api/pdf/savepdf
save_pdf(p, d, outcome) ==
    IF ~PayloadValid(p)
    THEN [resp  |-> Response(422, <<"Field required">>, <<>>, None, NoneCss,
                             FALSE, 0, 0),
          leaks |-> 0]
    ELSE IF ~Truthy(p.HtmlContent)
    THEN [resp  |-> Response(400, <<"HtmlContent is required.">>, <<>>, None,
                             NoneCss, FALSE, 0, 0),
          leaks |-> 0]
    ELSE The({[resp  |-> PdfAnswer(TryRender(p.HtmlContent, f.css, outcome),
                                   PyOr(p.FileName, S_document_pdf), f.css, f.scans),
               leaks |-> f.leaks] :
                 f \in {LenientCss(p.HtmlContent, p.FontFamily, p.FontFileName, d)}})

InvalidFontSelection_IgnoreCase(fonts, font_filename, font_family) ==
    LET hit == {i \in 1..Len(fonts) : fonts[i].filename = font_filename}
    IN  hit = {} \/ Lower(fonts[SetMax(hit)].family) /= Lower(font_family)

\* valid_fonts = {f["filename"]: f["family"] for f in get_font_display_list()}
\* font_filename not in valid_fonts or valid_fonts[font_filename] != font_family
InvalidFontSelection(fonts, font_filename, font_family) ==
    LET hit == {i \in 1..Len(fonts) : fonts[i].filename = font_filename}
    IN  hit = {} \/ fonts[SetMax(hit)].family /= font_family

\* main_old.py's stylesheet: the @font-face block and the body font, always
custom_css(font_family, font_uri) ==
    [fontFace |-> TRUE, family |-> font_family, src |-> font_uri]

\* main_old.py: POST /api/convert-html (the strict endpoint)
convert_html_old(r, d, outcome) ==
    The({IF ~Truthy(e.html_content) \/ ~Truthy(e.font_filename) \/ ~Truthy(e.font_family)
         THEN [resp  |-> Response(400, <<"Missing required data.">>, <<>>, None,
                                  NoneCss, FALSE, 0, 0),
               leaks |-> 0]
         ELSE The({IF InvalidFontSelection(cat.fonts, e.font_filename, e.font_family)
                   THEN [resp  |-> Response(400, <<"Invalid font selection.">>, <<>>,
                                            None, NoneCss, FALSE, 0, 1),
                         leaks |-> cat.leaks]
                   ELSE IF ~PathExists(d, e.font_filename)
                   THEN [resp  |-> Response(400, <<"Font file not found.">>, <<>>,
                                            None, NoneCss, FALSE, 0, 1),
                         leaks |-> cat.leaks]
                   ELSE The({[resp  |-> Base64Answer(
                                            TryRender(e.html_content, css, outcome),
                                            css, 1),
                              leaks |-> cat.leaks] :
                                css \in {custom_css(e.font_family,
                                                    AsUri(e.font_filename))}}) :
                      cat \in {get_font_display_list_old(d)}}) :
            e \in {Effective(r)}})

(******************************** inputs ***********************************)
S_arial_lc == <<"a", "r", "i", "a", "l">>
S_Amiri == <<"A", "m", "i", "r", "i">>
S_Tahoma_padded == <<" ", "T", "a", "h", "o", "m", "a">>
S_Latin == <<"L", "a", "t", "i", "n">>
N_arial_ttf == <<"a", "r", "i", "a", "l", ".", "t", "t", "f">>
N_TAHOMA_TTF == <<"T", "A", "H", "O", "M", "A", ".", "T", "T", "F">>
N_trado_ttf == <<"t", "r", "a", "d", "o", ".", "t", "t", "f">>
N_arial2_OTF == <<"A", "r", "i", "a", "l", "2", ".", "O", "T", "F">>
N_amiri_ttf == <<"a", "m", "i", "r", "i", ".", "t", "t", "f">>
N_pad_ttf == <<"p", "a", "d", ".", "t", "t", "f">>
N_latin_ttf == <<"l", "a", "t", "i", "n", ".", "t", "t", "f">>
N_nocmap_ttf == <<"n", "o", "c", "m", "a", "p", ".", "t", "t", "f">>
N_noname_ttf == <<"n", "o", "n", "a", "m", "e", ".", "t", "t", "f">>
N_noid1_ttf == <<"n", "o", "i", "d", "1", ".", "t", "t", "f">>
N_empty_ttf == <<"e", "m", "p", "t", "y", ".", "t", "t", "f">>
N_broken_ttf == <<"b", "r", "o", "k", "e", "n", ".", "t", "t", "f">>
N_undec_ttf == <<"u", "n", "d", "e", "c", ".", "t", "t", "f">>
N_notes_txt == <<"n", "o", "t", "e", "s", ".", "t", "x", "t">>
N_sub_ttf == <<"s", "u", "b", ".", "t", "t", "f">>
N_missing_ttf == <<"m", "i", "s", "s", "i", "n", "g", ".", "t", "t", "f">>
N_out_pdf == <<"o", "u", "t", ".", "p", "d", "f">>
H_plain == <<"<", "h", "1", ">", "h", "i", "<", "/", "h", "1", ">">>
H_tahoma == <<"<", "p", " ", "s", "t", "y", "l", "e", "=", "\"", "f", "o",
    "n", "t", "-", "f", "a", "m", "i", "l", "y", ":", " ", "T", "a", "h",
    "o", "m", "a", ",", " ", "s", "e", "r", "i", "f", "\"", ">">>
H_arial_then_tahoma == <<"b", "{", "f", "o", "n", "t", "-", "f", "a", "m",
    "i", "l", "y", ":", "'", "A", "R", "I", "A", "L", "'", ";", "}", "p",
    "{", "F", "o", "n", "t", "-", "F", "a", "m", "i", "l", "y", ":", "T",
    "a", "h", "o", "m", "a", "}">>
H_amiri_quoted == <<"p", "{", "f", "o", "n", "t", "-", "f", "a", "m", "i",
    "l", "y", ":", " ", "\"", "A", "m", "i", "r", "i", "\"", ",", " ", "s",
    "e", "r", "i", "f", ";", "}">>
H_unclosed == <<"p", "{", "f", "o", "n", "t", "-", "f", "a", "m", "i", "l",
    "y", ":", "'", " ", "T", "a", "h", "o", "m", "a", ";", "}", "b", "{",
    "f", "o", "n", "t", "-", "f", "a", "m", "i", "l", "y", ":", "A", "r",
    "i", "a", "l", "}">>
H_unknown_then_amiri == <<"a", "{", "f", "o", "n", "t", "-", "f", "a", "m",
    "i", "l", "y", ":", "C", "o", "m", "i", "c", ";", "}", "b", "{", "f",
    "o", "n", "t", "-", "f", "a", "m", "i", "l", "y", ":", "a", "m", "i",
    "r", "i", ";", "}">>
H_blank_value == <<"p", "{", "f", "o", "n", "t", "-", "f", "a", "m", "i",
    "l", "y", ":", " ", ";", "}">>
H_repeat == <<"i", "{", "f", "o", "n", "t", "-", "f", "a", "m", "i", "l",
    "y", ":", "A", "m", "i", "r", "i", "}", "b", "{", "f", "o", "n", "t",
    "-", "f", "a", "m", "i", "l", "y", ":", "A", "m", "i", "r", "i", ";",
    "f", "o", "n", "t", "-", "f", "a", "m", "i", "l", "y", ":", "t", "a",
    "h", "o", "m", "a", "}">>

\* one cmap subtable with Latin and Arabic letters (U+0041, U+0627)
ArabicCmap == <<{65, 1575}>>

FamilyNames(txt) == <<NameRec(4, TRUE, S_Latin), NameRec(1, TRUE, txt)>>

GoodFont(n, family) == FontFile(n, TRUE, TRUE, TRUE, ArabicCmap, TRUE, FamilyNames(family))

F_arial  == GoodFont(N_arial_ttf, S_Arial)
F_tahoma == GoodFont(N_TAHOMA_TTF, S_Tahoma)
F_trado  == GoodFont(N_trado_ttf, S_Traditional_Arabic)
F_arial2 == GoodFont(N_arial2_OTF, S_arial_lc)
F_amiri  == GoodFont(N_amiri_ttf, S_Amiri)
F_pad    == GoodFont(N_pad_ttf, S_Tahoma_padded)
\* no Arabic code point
F_latin  == FontFile(N_latin_ttf, TRUE, TRUE, TRUE, <<{65, 66}>>, TRUE, FamilyNames(S_Latin))
\* parses, but has no cmap table
F_nocmap == FontFile(N_nocmap_ttf, TRUE, TRUE, FALSE, <<>>, TRUE, FamilyNames(S_Amiri))
\* Arabic, but has no name table
F_noname == FontFile(N_noname_ttf, TRUE, TRUE, TRUE, ArabicCmap, FALSE, <<>>)
\* Arabic, a name table without a nameID 1 record
F_noid1  == FontFile(N_noid1_ttf, TRUE, TRUE, TRUE, ArabicCmap, TRUE,
                     <<NameRec(4, TRUE, S_Latin)>>)
\* Arabic, the first nameID 1 record is "", a second one is not
F_empty  == FontFile(N_empty_ttf, TRUE, TRUE, TRUE, ArabicCmap, TRUE,
                     <<NameRec(1, TRUE, <<>>), NameRec(1, TRUE, S_Amiri)>>)
\* not a font file
F_broken == FontFile(N_broken_ttf, TRUE, FALSE, FALSE, <<>>, FALSE, <<>>)
\* Arabic, the nameID 1 record does not decode
F_undec  == FontFile(N_undec_ttf, TRUE, TRUE, TRUE, ArabicCmap, TRUE,
                     <<NameRec(1, FALSE, <<>>)>>)
\* a font under a name that is not .ttf/.otf
F_notes  == GoodFont(N_notes_txt, S_Arial)
\* a sub-directory named like a font
F_sub    == FontFile(N_sub_ttf, FALSE, FALSE, FALSE, <<>>, FALSE, <<>>)

CatalogPool == {F_arial, F_tahoma, F_trado, F_arial2, F_amiri, F_pad, F_latin,
                F_nocmap, F_noname, F_noid1, F_empty, F_broken, F_undec,
                F_notes, F_sub}
SelectorPool == {F_arial, F_arial2, F_tahoma, F_trado, F_amiri, F_pad, F_latin}
ServicePool == {F_arial, F_tahoma, F_amiri, F_nocmap}

NoDir == [exists |-> FALSE, files |-> <<>>]

\* the directories with at most n entries of pool, in any iterdir() order,
\* and the missing directory
Dirs(pool, n) ==
    {NoDir} \cup
    {[exists |-> TRUE, files |-> s] :
        s \in UNION {{t \in [1..k -> pool] :
                         \A i, j \in 1..k : i /= j => t[i].name /= t[j].name} :
                     k \in 0..n}}

\* code points at and next to the ends of the five ranges, and U+1EE00
CodepointSamples ==
    {65, 1535, 1536, 1791, 1792, 1871, 1872, 1919, 1920, 2207, 2208, 2303, 2304,
     64335, 64336, 65023, 65024, 65135, 65136, 65279, 65280, 126464}

CmapTableSamples ==
    {{}} \cup {{c} : c \in CodepointSamples} \cup {{65, 1575}, {65, 66}, {1535, 1792}}

\* subtables that follow the first one
LaterTableSamples == {{}, {65}, {1792}, {65279}}

ArabicInputs ==
    {F_broken, F_nocmap} \cup
    {FontFile(N_arial_ttf, TRUE, TRUE, TRUE, ct, TRUE, FamilyNames(S_Arial)) :
        ct \in {<<>>} \cup
               UNION {{<<first>> \o rest :
                          first \in CmapTableSamples,
                          rest \in [1..(k - 1) -> LaterTableSamples]} :
                      k \in 1..MaxTables}}

NameRecSamples ==
    {NameRec(1, TRUE, S_Arial), NameRec(1, TRUE, <<>>), NameRec(1, FALSE, <<>>),
     NameRec(4, TRUE, S_Tahoma), NameRec(2, TRUE, S_Latin)}

FamilyInputs ==
    {F_broken, F_noname} \cup
    {FontFile(N_arial_ttf, TRUE, TRUE, TRUE, ArabicCmap, TRUE, nm) :
        nm \in {<<>>} \cup {<<a>> : a \in NameRecSamples}
                      \cup {<<a, b>> : a \in NameRecSamples, b \in NameRecSamples}}

HtmlSamples ==
    {<<>>, H_plain, H_tahoma, H_arial_then_tahoma, H_amiri_quoted, H_unclosed,
     H_unknown_then_amiri, H_blank_value, H_repeat}

AllNone == Fields(None, None, None)
NoJson == [given |-> FALSE, nonEmpty |-> FALSE, html_content |-> None,
           font_filename |-> None, font_family |-> None]
EmptyJson == [given |-> TRUE, nonEmpty |-> FALSE, html_content |-> None,
              font_filename |-> None, font_family |-> None]
JsonOf(x) == [given |-> TRUE, nonEmpty |-> TRUE, html_content |-> x.html_content,
              font_filename |-> x.font_filename, font_family |-> x.font_family]

FieldSamples ==
    {Fields(h, fn, ff) :
        h  \in {None, <<>>, H_plain, H_tahoma, H_unclosed},
        fn \in {None, N_arial_ttf, N_nocmap_ttf, N_missing_ttf},
        ff \in {None, S_Arial, S_arial_lc, S_Tahoma}}

ConvertRequests ==
    {[form |-> x, json |-> j] : x \in FieldSamples, j \in {NoJson, EmptyJson}}
    \cup {[form |-> f, json |-> JsonOf(x)] :
            f \in {AllNone, Fields(H_plain, N_arial_ttf, S_Arial)}, x \in FieldSamples}

SavePayloads ==
    {[hasHtmlContent |-> FALSE, HtmlContent |-> None, FileName |-> None,
      FontFileName |-> fn, FontFamily |-> None] : fn \in {None, N_arial_ttf}}
    \cup {[hasHtmlContent |-> TRUE, HtmlContent |-> x.html_content, FileName |-> n,
           FontFileName |-> x.font_filename, FontFamily |-> x.font_family] :
            x \in {y \in FieldSamples : y.html_content /= None},
            n \in {None, N_out_pdf}}

\* what the rendering engine may do: "%PDF", "%PDF-", or raise
RenderOutcomes ==
    {[ok |-> TRUE, bytes |-> <<37, 80, 68, 70>>, message |-> <<>>],
     [ok |-> TRUE, bytes |-> <<37, 80, 68, 70, 45>>, message |-> <<>>],
     [ok |-> FALSE, bytes |-> <<>>, message |-> <<"no such resource">>],
     [ok |-> FALSE, bytes |-> <<>>, message |-> <<"layout failed">>]}

(***************************** state machine *******************************)
(* Every call runs to completion in one step.  A TTFont that a call leaves  *)
(* open is closed only when the interpreter finalises the object: before    *)
(* the call returns (finalised), at some later collection (Finalize), or    *)
(* not at all.                                                              *)
(***************************************************************************)
Idle(d) ==
    /\ dir = d
    /\ openHandles = 0
    /\ pc = "idle"
    /\ op = "none"
    /\ arg = <<>>
    /\ out = <<>>

InitInspector == Idle(NoDir)
InitCatalog == \E d \in Dirs(CatalogPool, MaxFiles) : Idle(d)
InitSelector == \E d \in Dirs(SelectorPool, MaxFiles) : Idle(d)
Init == \E d \in Dirs(ServicePool, MaxServiceFiles) : Idle(d)

\* a call returns: its input, its result, and the handles it left open
Done(name, input, result, leaks) ==
    /\ \E finalised \in (IF leaks > 0 THEN BOOLEAN ELSE {FALSE}) :
          \E left \in {IF finalised THEN 0 ELSE leaks} :
              /\ openHandles + left <= MaxOpen
              /\ openHandles' = openHandles + left
    /\ pc' = "done"
    /\ op' = name
    /\ arg' = input
    /\ out' = result
    /\ UNCHANGED dir

CallFontSupportsArabic ==
    /\ pc = "idle"
    /\ \E f \in ArabicInputs :
          \E r \in {font_supports_arabic(f)} :
              Done("font_supports_arabic", [font |-> f],
                   [ret |-> r.ret, raised |-> r.raised], IF r.leaked THEN 1 ELSE 0)

CallGetFamilyFromFontfile ==
    /\ pc = "idle"
    /\ \E f \in FamilyInputs :
          \E r \in {get_family_from_fontfile(f)} :
              Done("get_family_from_fontfile", [font |-> f],
                   [ret |-> r.ret, raised |-> r.raised], IF r.leaked THEN 1 ELSE 0)

\* GET /api/fonts
ListFonts ==
    /\ pc = "idle"
    /\ \E cat \in {get_font_display_list(dir)} :
          Done("list_fonts", <<>>, [fonts |-> cat.fonts], cat.leaks)

\* GET /: the form page lists get_font_display_list()
FormPage ==
    /\ pc = "idle"
    /\ \E cat \in {get_font_display_list(dir)} :
          Done("form_page", <<>>, [fonts |-> cat.fonts], cat.leaks)

CallChooseFontFromHtml ==
    /\ pc = "idle"
    /\ \E html \in HtmlSamples :
          \E r \in {choose_font_from_html(html, dir)} :
              Done("choose_font_from_html", [html |-> html],
                   [family |-> r.family, filename |-> r.filename], r.leaks)

ConvertHtml ==
    /\ pc = "idle"
    /\ \E r \in ConvertRequests, outcome \in RenderOutcomes :
          \E h \in {convert_html(r, dir, outcome)} :
              Done("convert_html", [request |-> r, outcome |-> outcome],
                   h.resp, h.leaks)

SavePdf ==
    /\ pc = "idle"
    /\ \E p \in SavePayloads, outcome \in RenderOutcomes :
          \E h \in {save_pdf(p, dir, outcome)} :
              Done("save_pdf", [request |-> p, outcome |-> outcome], h.resp, h.leaks)

ConvertHtmlOld ==
    /\ pc = "idle"
    /\ \E r \in ConvertRequests, outcome \in RenderOutcomes :
          \E h \in {convert_html_old(r, dir, outcome)} :
              Done("convert_html_old", [request |-> r, outcome |-> outcome],
                   h.resp, h.leaks)

\* the caller takes the result; the next call may start
Return ==
    /\ pc = "done"
    /\ pc' = "idle"
    /\ op' = "none"
    /\ arg' = <<>>
    /\ out' = <<>>
    /\ UNCHANGED <<dir, openHandles>>

\* the garbage collector finalises the TTFont objects nothing refers to
Finalize ==
    /\ pc = "idle"
    /\ openHandles > 0
    /\ openHandles' = 0
    /\ UNCHANGED <<dir, pc, op, arg, out>>

NextInspector ==
    \/ CallFontSupportsArabic
    \/ CallGetFamilyFromFontfile
    \/ Return
    \/ Finalize

NextCatalog ==
    \/ ListFonts
    \/ FormPage
    \/ Return
    \/ Finalize

NextSelector ==
    \/ CallChooseFontFromHtml
    \/ Return

Next ==
    \/ ConvertHtml
    \/ SavePdf
    \/ ConvertHtmlOld
    \/ ListFonts
    \/ Return
    \/ Finalize

SpecInspector == InitInspector /\ [][NextInspector]_vars
SpecCatalog == InitCatalog /\ [][NextCatalog]_vars
SpecSelector == InitSelector /\ [][NextSelector]_vars
Spec == Init /\ [][Next]_vars

(******************************* properties ********************************)
Returned(name) == pc = "done" /\ op = name

\* the Catalog of the current directory
Catalog == get_font_display_list(dir).fonts

\* C1: font_supports_arabic returns true exactly when the font parses, has a
\* cmap table and some subtable maps a code point of U+0600-06FF, U+0750-077F,
\* U+08A0-08FF, U+FB50-FDFF or U+FE70-FEFF (ends included); it never raises.
C1_InArabicRanges(cp) ==
    cp \in (1536..1791) \cup (1872..1919) \cup (2208..2303)
           \cup (64336..65023) \cup (65136..65279)

C1_SupportsArabicIffRangeHit ==
    Returned("font_supports_arabic") =>
        /\ ~out.raised
        /\ out.ret <=>
              /\ arg.font.parses
              /\ arg.font.hasCmap
              /\ \E t \in 1..Len(arg.font.cmapTables) :
                    \E cp \in arg.font.cmapTables[t] : C1_InArabicRanges(cp)

\* a font whose first subtable holds only U+0700 (one past a range) and whose
\* second holds only U+FEFF (the last code point of the last range)
C1_Witness ==
    /\ Returned("font_supports_arabic")
    /\ arg.font.cmapTables = <<{1792}, {65279}>>
    /\ out.ret

\* C2: the list of get_font_display_list has no entry with an empty or
\* absent family, and consecutive entries a, b have lower(a) <= lower(b).
C2_NoEmptyFamilySortedByLower ==
    (Returned("list_fonts") \/ Returned("form_page")) =>
        \A i \in 1..Len(out.fonts) :
            /\ out.fonts[i].family /= None
            /\ out.fonts[i].family /= <<>>
            /\ i < Len(out.fonts) =>
                  ~StrLess(Lower(out.fonts[i + 1].family), Lower(out.fonts[i].family))

\* "Tahoma" is scanned first, then a font whose first family record is "",
\* then "arial": the list is arial, Tahoma
C2_Witness ==
    /\ Returned("list_fonts")
    /\ dir.files = <<F_tahoma, F_empty, F_arial2>>
    /\ out.fonts = <<[filename |-> N_arial2_OTF, family |-> S_arial_lc],
                     [filename |-> N_TAHOMA_TTF, family |-> S_Tahoma]>>

\* the candidates of the HTML a call of choose_font_from_html was given
CallCandidates == extract_font_family_candidates(arg.html)

\* trimmed of surrounding white space, then lowercased
Norm(x) == Lower(Strip(x))

\* C3 as claimed: when some candidate equals, lowercased, the lowercased
\* family of a Catalog entry, the result is the first such candidate, as the
\* HTML spells it, with the file name of an entry of that lowercased family.
C3_FirstLowercaseMatch ==
    Returned("choose_font_from_html") =>
        \A cat \in {Catalog}, cands \in {CallCandidates} :
            LET hits == {k \in 1..Len(cands) :
                            \E i \in 1..Len(cat) : Lower(cat[i].family) = Lower(cands[k])}
            IN  hits /= {} =>
                  /\ out.family = cands[SetMin(hits)]
                  /\ \E i \in 1..Len(cat) :
                        /\ cat[i].filename = out.filename
                        /\ Lower(cat[i].family) = Lower(out.family)

\* C3 amended: the same with both sides also trimmed of surrounding white
\* space before they are compared.
C3_FirstTrimmedLowercaseMatch ==
    Returned("choose_font_from_html") =>
        \A cat \in {Catalog}, cands \in {CallCandidates} :
            LET hits == {k \in 1..Len(cands) :
                            \E i \in 1..Len(cat) : Norm(cat[i].family) = Norm(cands[k])}
            IN  hits /= {} =>
                  /\ out.family = cands[SetMin(hits)]
                  /\ \E i \in 1..Len(cat) :
                        /\ cat[i].filename = out.filename
                        /\ Norm(cat[i].family) = Norm(out.family)

\* the HTML names 'ARIAL' and then Tahoma, both in the Catalog: the result
\* is ARIAL as the HTML spells it, with Arial's file
C3_Witness ==
    /\ Returned("choose_font_from_html")
    /\ arg.html = H_arial_then_tahoma
    /\ \E i \in 1..Len(Catalog) : Catalog[i].family = S_Tahoma
    /\ out.family = <<"A", "R", "I", "A", "L">>
    /\ out.filename = N_arial_ttf

C4_PreferenceList ==
    <<S_Traditional_Arabic, S_Arial, S_Tahoma, S_Noto_Kufi_Arabic, S_Segoe_UI>>

\* C4 as claimed: when no candidate equals, lowercased, a lowercased Catalog
\* family, the result is the first name of [Traditional Arabic, Arial,
\* Tahoma, Noto Kufi Arabic, Segoe UI] that equals, lowercased, a lowercased
\* Catalog family, with that entry's file name; (absent, absent) if none.
C4_FallbackByLowercase ==
    Returned("choose_font_from_html") =>
        \A cat \in {Catalog}, cands \in {CallCandidates} :
            LET InCat(x) == \E i \in 1..Len(cat) : Lower(cat[i].family) = Lower(x)
                fbs == {k \in 1..Len(C4_PreferenceList) : InCat(C4_PreferenceList[k])}
            IN  (\A k \in 1..Len(cands) : ~InCat(cands[k])) =>
                  IF fbs = {}
                  THEN out.family = None /\ out.filename = None
                  ELSE /\ out.family = C4_PreferenceList[SetMin(fbs)]
                       /\ \E i \in 1..Len(cat) :
                             /\ cat[i].filename = out.filename
                             /\ Lower(cat[i].family) = Lower(out.family)

\* C4 amended: the same with candidates and Catalog families also trimmed of
\* surrounding white space before they are compared.
C4_FallbackByTrimmedLowercase ==
    Returned("choose_font_from_html") =>
        \A cat \in {Catalog}, cands \in {CallCandidates} :
            LET InCat(x) == \E i \in 1..Len(cat) : Norm(cat[i].family) = Norm(x)
                fbs == {k \in 1..Len(C4_PreferenceList) : InCat(C4_PreferenceList[k])}
            IN  (\A k \in 1..Len(cands) : ~InCat(cands[k])) =>
                  IF fbs = {}
                  THEN out.family = None /\ out.filename = None
                  ELSE /\ out.family = C4_PreferenceList[SetMin(fbs)]
                       /\ \E i \in 1..Len(cat) :
                             /\ cat[i].filename = out.filename
                             /\ Norm(cat[i].family) = Norm(out.family)

\* no font-family in the HTML; the Catalog lists Arial before Traditional
\* Arabic, and Traditional Arabic, first of the list, is returned
C4_Witness ==
    /\ Returned("choose_font_from_html")
    /\ arg.html = H_plain
    /\ Len(Catalog) >= 2
    /\ Catalog[1].family = S_Arial
    /\ out.family = S_Traditional_Arabic
    /\ out.filename = N_trado_ttf

\* C5: the strict endpoint answers 400, without a font-face fallback and
\* without calling the renderer, when the effective font_filename is not a
\* Catalog file name or font_family differs in any character from that
\* entry's family; it renders only an exact (filename, family) Catalog entry.
C5_IsCatalogEntry ==
    \E cat \in {Catalog} :
        \E i \in 1..Len(cat) :
            /\ cat[i].filename = Effective(arg.request).font_filename
            /\ cat[i].family = Effective(arg.request).font_family

C5_StrictRejectsAnyMismatch ==
    Returned("convert_html_old") =>
        /\ ~C5_IsCatalogEntry =>
              /\ out.status = 400
              /\ out.renderCalls = 0
              /\ ~out.css.fontFace
        /\ out.renderCalls > 0 => C5_IsCatalogEntry

\* arial.ttf is in the Catalog as "Arial"; the request names it "arial"
C5_Witness ==
    /\ Returned("convert_html_old")
    /\ \E i \in 1..Len(Catalog) :
          Catalog[i].filename = N_arial_ttf /\ Catalog[i].family = S_Arial
    /\ Truthy(Effective(arg.request).html_content)
    /\ Effective(arg.request).font_filename = N_arial_ttf
    /\ Effective(arg.request).font_family = S_arial_lc
    /\ out.status = 400
    /\ out.renderCalls = 0

\* a convert_html request with HTML and neither font field, rendered well
C6_NoFontFields ==
    /\ Returned("convert_html")
    /\ Truthy(Effective(arg.request).html_content)
    /\ Effective(arg.request).font_filename = None
    /\ Effective(arg.request).font_family = None
    /\ arg.outcome.ok

\* C6 as claimed: such a request is answered 200 with a non-empty
\* pdf_base64 and its stylesheet has no font-face block, whatever the Catalog.
C6_NoFontFieldsNoFontFace ==
    C6_NoFontFields =>
        /\ out.status = 200
        /\ out.body /= <<>>
        /\ ~out.css.fontFace

\* some HTML candidate or some name of the preference list is a Catalog family
C6_AutoSelectable ==
    \E cat \in {Catalog},
       cands \in {extract_font_family_candidates(Effective(arg.request).html_content)} :
        \E i \in 1..Len(cat) :
            \/ \E k \in 1..Len(C4_PreferenceList) :
                  Norm(C4_PreferenceList[k]) = Norm(cat[i].family)
            \/ \E k \in 1..Len(cands) : Norm(cands[k]) = Norm(cat[i].family)

\* C6 amended: such a request is answered 200 with a non-empty pdf_base64;
\* its stylesheet has a font-face block exactly when an HTML candidate or a
\* name of the preference list is a Catalog family, and the block then binds
\* the file of a Catalog entry of that family.
C6_NoFontFieldsFontFaceIffAutoSelected ==
    C6_NoFontFields =>
        /\ out.status = 200
        /\ out.body /= <<>>
        /\ out.css.fontFace <=> C6_AutoSelectable
        /\ out.css.fontFace =>
              \E cat \in {Catalog} :
                  \E i \in 1..Len(cat) :
                      /\ out.css.src = AsUri(cat[i].filename)
                      /\ Norm(out.css.family) = Norm(cat[i].family)

\* the Catalog has one font, Amiri, which the HTML does not name and the
\* preference list does not hold: the stylesheet has no font-face block
C6_Witness ==
    /\ C6_NoFontFields
    /\ Len(Catalog) = 1
    /\ Catalog[1].family = S_Amiri
    /\ Effective(arg.request).html_content = H_plain
    /\ out.status = 200
    /\ out.body = b64encode(arg.outcome.bytes)
    /\ ~out.css.fontFace

\* C7 as claimed: a request without HTML content (savepdf: HtmlContent
\* missing or empty; convert-html: effective html_content missing or empty)
\* is answered 400, scans no font directory and never calls the renderer.
C7_NoHtmlIs400 ==
    (\/ /\ Returned("save_pdf")
        /\ ~arg.request.hasHtmlContent \/ ~Truthy(arg.request.HtmlContent)
     \/ /\ Returned("convert_html")
        /\ ~Truthy(Effective(arg.request).html_content))
    => /\ out.status = 400
       /\ out.scans = 0
       /\ out.renderCalls = 0

\* C8: when the renderer raises, each rendering endpoint answers 500 with a
\* detail that carries the renderer's message, after one render call, with
\* no output, and the exception does not leave the handler.
C8_RenderFailureIs500 ==
    (/\ Returned("convert_html") \/ Returned("save_pdf") \/ Returned("convert_html_old")
     /\ out.renderCalls > 0
     /\ ~arg.outcome.ok)
    => /\ out.status = 500
       /\ out.detail = <<"PDF generation failed: ">> \o arg.outcome.message
       /\ ~out.escaped
       /\ out.renderCalls = 1
       /\ out.body = <<>>

\* savepdf reaches the renderer, which raises "layout failed"
C8_Witness ==
    /\ Returned("save_pdf")
    /\ ~arg.outcome.ok
    /\ arg.outcome.message = <<"layout failed">>
    /\ out.renderCalls = 1
    /\ out.status = 500

\* C9 as claimed: every font handle opened by an inspection is closed when
\* the call returns, so no handle is ever left open.
C9_NoOpenHandles == openHandles = 0

\* C10 as claimed: a font-face block of a lenient endpoint binds the family
\* and the file of one Catalog entry (family compared without case).
C10_FontFaceBindsOneEntry ==
    ((Returned("convert_html") \/ Returned("save_pdf")) /\ out.css.fontFace) =>
        \E cat \in {Catalog} :
            \E i \in 1..Len(cat) :
                /\ out.css.src = AsUri(cat[i].filename)
                /\ Lower(out.css.family) = Lower(cat[i].family)

====
